---- MODULE Spec2Model ----
(***************************************************************************)
(* A model of vex-libunwind (packages/vex-libunwind/src/lib.rs): the       *)
(* status-code classification UnwindError::from_code, the RefCell-wrapped  *)
(* UnwindContext and UnwindCursor, and every public operation on them.     *)
(* The unwind engine (vex_libunwind_sys: unw_getcontext, unw_init_local,   *)
(* unw_step, ...) is the environment: each primitive is a set of possible  *)
(* outcomes for the call stack the thread has.                             *)
(***************************************************************************)
EXTENDS Integers, Sequences, FiniteSets, TLC

VARIABLES stack, ctxs, cells, cellOf, panicked, observed, last

vars == <<stack, ctxs, cells, cellOf, panicked, observed, last>>

(***************************************************************************)
(* Bounds of the model.                                                    *)
(***************************************************************************)
\* deepest call stack the thread may have
MaxDepth == 3
\* cursor handles (and cursor cells) a program may hold
MaxCursors == 2
\* context handles a program may hold
MaxContexts == 2
\* register values written by set_register / set_fp_register are 1..MaxVal
MaxVal == 1
\* from_code is applied to every code within CodeMargin of a known constant
CodeMargin == 45

(***************************************************************************)
(* Status codes of the engine (vex_libunwind_sys::error, libunwind.h).     *)
(***************************************************************************)
UNW_ESUCCESS == 0
UNW_EUNSPEC == -6540
UNW_ENOMEM == -6541
UNW_EBADREG == -6542
UNW_EREADONLYREG == -6543
UNW_ESTOPUNWIND == -6544
UNW_EINVALIDIP == -6545
UNW_EBADFRAME == -6546
UNW_EINVAL == -6547
UNW_EBADVERSION == -6548
UNW_ENOINFO == -6549
UNW_STEP_SUCCESS == 1
UNW_STEP_END == 0

\* uw_error_t is a C int
INT_MAX == 2147483647
INT_MIN == -INT_MAX - 1

(***************************************************************************)
(* Register identifiers (vex_libunwind_sys::registers).                    *)
(***************************************************************************)
UNW_REG_IP == -1
UNW_ARM_D0 == 256
\* an identifier no ARM register has
UNW_BAD_REG == 4096

GpRegs == {UNW_REG_IP}
FpRegs == {UNW_ARM_D0}
RegIds == {UNW_REG_IP, UNW_ARM_D0, UNW_BAD_REG}
Values == 1..MaxVal

(***************************************************************************)
(* UnwindError::from_code.  The match is tried arm by arm, in order.       *)
(***************************************************************************)
KindOf(code) ==
    IF code = UNW_EUNSPEC THEN "Unspecified"
    ELSE IF code = UNW_ENOMEM THEN "NoMemory"
    ELSE IF code = UNW_EBADREG THEN "BadRegister"
    ELSE IF code = UNW_EREADONLYREG THEN "WriteToReadOnlyRegister"
    ELSE IF code = UNW_ESTOPUNWIND THEN "StopUnwinding"
    ELSE IF code = UNW_EINVALIDIP THEN "InvalidIP"
    ELSE IF code = UNW_EBADFRAME THEN "BadFrame"
    ELSE IF code = UNW_EINVAL THEN "BadValue"
    ELSE IF code = UNW_EBADVERSION THEN "BadVersion"
    ELSE IF code = UNW_ENOINFO THEN "NoInfo"
    ELSE "Unknown"

\* a classification that takes the success status itself for an error
MutFromCodeStrict(code) ==
    IF code > UNW_ESUCCESS
    THEN [ok |-> TRUE, kind |-> "", code |-> code]
    ELSE [ok |-> FALSE, kind |-> KindOf(code),
          code |-> IF KindOf(code) = "Unknown" THEN code ELSE 0]

\* Ok(code) | Err(kind); only Unknown carries the code
FromCode(code) ==
    IF code >= UNW_ESUCCESS
    THEN [ok |-> TRUE, kind |-> "", code |-> code]
    ELSE [ok |-> FALSE, kind |-> KindOf(code),
          code |-> IF KindOf(code) = "Unknown" THEN code ELSE 0]

(***************************************************************************)
(* State.                                                                  *)
(*   stack   the call stack of the thread: its depth, whether its unwind   *)
(*           info is complete (the engine never fails on it) and which     *)
(*           frame, if any, is a signal frame (0: none)                    *)
(*   ctxs    UnwindContext values by handle: RefCell<unw_context_t>        *)
(*   cells   UnwindCursor cells: RefCell<unw_cursor_t>, plus, where the    *)
(*           calls are observed, the history of that traversal: how often  *)
(*           step returned true before it first returned false (trues),    *)
(*           whether it has returned false (terminal) or an error before   *)
(*           that (erred), whether the engine was asked to step after      *)
(*           that (pastEnd)                                                *)
(*   cellOf  the cell each cursor handle owns (0: the handle is unused)    *)
(*   panicked  a RefCell borrow has panicked                               *)
(*   observed  whether the calls are observed: a specification about what  *)
(*           the calls return observes them, one about the cells alone     *)
(*           does not                                                      *)
(*   last    the last public call observed: its name and arguments, the    *)
(*           engine status it got, what it returned and the borrows and    *)
(*           engine calls it made                                          *)
(***************************************************************************)
CtxIds == 1..MaxContexts
CurIds == 1..MaxCursors
CellIds == 1..MaxCursors

\* the innermost frame is the one that captured the context, so a signal
\* frame is an outer one
Stacks ==
    {st \in [depth : 1..MaxDepth, wellFormed : BOOLEAN, sig : 0..MaxDepth] :
        st.sig <= st.depth /\ st.sig # 1}

\* the value the stack holds for the instruction pointer of frame f
StackIP(f) == 10 * f
\* the value the stack holds for d0 in every frame
StackD0 == 0

NoCtx == [live |-> FALSE, ip |-> 0, borrow |-> 0]
NoCell == [live |-> FALSE, frame |-> 0, atEnd |-> FALSE, ip |-> 0, d0 |-> 0,
           borrow |-> 0, trues |-> 0, terminal |-> FALSE, erred |-> FALSE,
           pastEnd |-> FALSE]

\* what a public call returned
Ret(tag, kind, code, word, flag, name) ==
    [tag |-> tag, kind |-> kind, code |-> code, word |-> word, flag |-> flag,
     name |-> name]
RetNothing == Ret("Nothing", "", 0, 0, FALSE, "")
RetUnit == Ret("Ok", "", 0, 0, FALSE, "")
RetCode(c) == Ret("Ok", "", c, 0, FALSE, "")
RetWord(w) == Ret("Ok", "", 0, w, FALSE, "")
RetBool(b) == Ret("Ok", "", 0, 0, b, "")
RetErr(fc) == Ret("Err", fc.kind, fc.code, 0, FALSE, "")
RetPlainBool(b) == Ret("Bool", "", 0, 0, b, "")
RetSome(n) == Ret("Some", "", 0, 0, FALSE, n)
RetNone == Ret("None", "", 0, 0, FALSE, "")
RetPanic == Ret("Panic", "", 0, 0, FALSE, "")

Call(op, args, code, ret, trace) ==
    [op |-> op, args |-> args, code |-> code, ret |-> ret, trace |-> trace]

Called(op, args, code, ret, trace) ==
    IF observed THEN Call(op, args, code, ret, trace) ELSE last

(***************************************************************************)
(* RefCell: the borrow flag is 0 when free, -1 while exclusively borrowed  *)
(* and n > 0 while n shared borrows are out.                               *)
(***************************************************************************)
BorrowMut(flag) ==
    IF flag = 0 THEN [panic |-> FALSE, flag |-> -1]
    ELSE [panic |-> TRUE, flag |-> flag]

BorrowShared(flag) ==
    IF flag >= 0 THEN [panic |-> FALSE, flag |-> flag + 1]
    ELSE [panic |-> TRUE, flag |-> flag]

\* the RefMut temporary of `&mut *self.inner.borrow_mut()` is dropped at the
\* end of the statement that made the engine call
MutGuardKept(flag) == flag

DropRefMut(flag) == flag + 1

DropRef(flag) == flag - 1

(***************************************************************************)
(* The engine.  Each primitive gives the set of outcomes it may have:      *)
(* the status code, the cursor's contents afterwards, and the value or     *)
(* name it hands back.                                                     *)
(***************************************************************************)
Out(code, cell, value, name) ==
    [code |-> code, cell |-> cell, value |-> value, name |-> name]

StepErrors ==
    {UNW_EUNSPEC, UNW_ENOINFO, UNW_EBADVERSION, UNW_EINVALIDIP, UNW_EBADFRAME}

\* unw_getcontext
EngineGetContext ==
    {Out(UNW_ESUCCESS, NoCell, StackIP(1), "")}
    \cup (IF stack.wellFormed THEN {}
          ELSE {Out(UNW_EUNSPEC, NoCell, 0, "")})

\* unw_init_local: the cursor starts on the innermost frame with the
\* registers the context captured
EngineInitLocal(ctx) ==
    {Out(UNW_ESUCCESS,
         [NoCell EXCEPT !.live = TRUE, !.frame = 1, !.ip = ctx.ip,
                        !.d0 = StackD0], 0, "")}
    \cup (IF stack.wellFormed THEN {}
          ELSE {Out(k, NoCell, 0, "") : k \in {UNW_ENOINFO, UNW_EBADVERSION}})

\* unw_step: to the caller's frame, or end of stack on the outermost frame.
\* On a stack whose unwind info is incomplete it may fail or end early.
\* Past the end of the stack its answer is unspecified.
EngineStep(c) ==
    IF c.atEnd
    THEN {Out(k, c, 0, "") : k \in {UNW_STEP_END, UNW_STEP_SUCCESS} \cup StepErrors}
    ELSE (IF c.frame < stack.depth
          THEN {Out(UNW_STEP_SUCCESS,
                    [c EXCEPT !.frame = c.frame + 1, !.ip = StackIP(c.frame + 1),
                              !.d0 = StackD0], 0, "")}
          ELSE {Out(UNW_STEP_END, [c EXCEPT !.atEnd = TRUE], 0, "")})
         \cup (IF stack.wellFormed THEN {}
               ELSE {Out(k, c, 0, "") : k \in StepErrors}
                    \cup {Out(UNW_STEP_END, [c EXCEPT !.atEnd = TRUE], 0, "")})

\* unw_get_reg: the general-purpose register file
EngineGetReg(c, r) ==
    IF r \in GpRegs
    THEN {Out(UNW_ESUCCESS, c, c.ip, "")}
         \cup (IF stack.wellFormed THEN {} ELSE {Out(UNW_EUNSPEC, c, 0, "")})
    ELSE {Out(UNW_EBADREG, c, 0, "")}

\* unw_set_reg
EngineSetReg(c, r, v) ==
    IF r \in GpRegs
    THEN {Out(UNW_ESUCCESS, [c EXCEPT !.ip = v], 0, "")}
         \cup (IF stack.wellFormed THEN {} ELSE {Out(UNW_EUNSPEC, c, 0, "")})
    ELSE {Out(UNW_EBADREG, c, 0, "")}

\* unw_get_fpreg: the floating-point register file
EngineGetFpreg(c, r) ==
    IF r \in FpRegs
    THEN {Out(UNW_ESUCCESS, c, c.d0, "")}
         \cup (IF stack.wellFormed THEN {} ELSE {Out(UNW_EUNSPEC, c, 0, "")})
    ELSE {Out(UNW_EBADREG, c, 0, "")}

\* unw_set_fpreg
EngineSetFpreg(c, r, v) ==
    IF r \in FpRegs
    THEN {Out(UNW_ESUCCESS, [c EXCEPT !.d0 = v], 0, "")}
         \cup (IF stack.wellFormed THEN {} ELSE {Out(UNW_EUNSPEC, c, 0, "")})
    ELSE {Out(UNW_EBADREG, c, 0, "")}

\* unw_is_fpreg: positive for a floating-point register, zero for another
\* register, zero or negative for an identifier it does not know
EngineIsFpreg(c, r) ==
    IF r \in FpRegs THEN {Out(1, c, 0, "")}
    ELSE IF r \in GpRegs THEN {Out(0, c, 0, "")}
    ELSE {Out(0, c, 0, ""), Out(UNW_EBADREG, c, 0, "")}

\* unw_is_signal_frame
EngineIsSignalFrame(c) ==
    {Out(IF c.frame = stack.sig THEN 1 ELSE 0, c, 0, "")}
    \cup (IF stack.wellFormed THEN {} ELSE {Out(UNW_ENOINFO, c, 0, "")})

\* unw_regname
EngineRegname(c, r) ==
    IF r = UNW_REG_IP THEN {Out(0, c, 0, "pc")}
    ELSE IF r = UNW_ARM_D0 THEN {Out(0, c, 0, "d0")}
    ELSE {Out(0, c, 0, "unknown register")}

(***************************************************************************)
(* What each handler does with the engine: the primitive it calls, how     *)
(* often, and what it returns for the status it gets.                      *)
(***************************************************************************)
Failing(outs) == {o \in outs : o.code < UNW_ESUCCESS}

\* a handler that calls again when the engine fails
MutCallsRetry(outs) ==
    {<<o>> : o \in outs \ Failing(outs)}
    \cup {<<o1, o2>> : o1 \in Failing(outs), o2 \in outs}

\* every handler makes its engine call once and returns on `?`
Calls(outs) == {<<o>> : o \in outs}

Final(calls) == calls[Len(calls)]

\* borrow_mut, the engine calls, the RefMut dropped
Trace(prim, calls) ==
    <<"borrow_mut">> \o [i \in 1..Len(calls) |-> prim] \o <<"release">>

EngineCalls(trace) ==
    SelectSeq(trace, LAMBDA e : e \notin {"borrow_mut", "borrow", "release"})

\* UnwindContext::new
ContextNewRet(code) ==
    LET fc == FromCode(code) IN IF fc.ok THEN RetUnit ELSE RetErr(fc)

\* UnwindCursor::new
CursorNewRet(code) ==
    LET fc == FromCode(code) IN IF fc.ok THEN RetUnit ELSE RetErr(fc)

\* a step that answers for a cursor it has seen end, without the engine
MutStepGuarded(c) ==
    IF c.terminal
    THEN [prim |-> "skipped", outs |-> {Out(UNW_STEP_END, c, 0, "")}]
    ELSE [prim |-> "unw_step", outs |-> EngineStep(c)]

\* UnwindCursor::step: the call it makes
StepEngine(c) == [prim |-> "unw_step", outs |-> EngineStep(c)]

\* a step that compares with the success status instead of UNW_STEP_SUCCESS
MutStepRetEsuccess(code) ==
    LET fc == FromCode(code)
    IN  IF fc.ok THEN RetBool(fc.code = UNW_ESUCCESS) ELSE RetErr(fc)

\* UnwindCursor::step: what it returns
StepRet(code) ==
    LET fc == FromCode(code)
    IN  IF fc.ok THEN RetBool(fc.code = UNW_STEP_SUCCESS) ELSE RetErr(fc)

\* UnwindCursor::register
RegisterEngine(c, r) == [prim |-> "unw_get_reg", outs |-> EngineGetReg(c, r)]

\* a register read that drops the status instead of returning on it
MutRegisterRetNoCheck(code, value) == RetWord(value)

RegisterRet(code, value) ==
    LET fc == FromCode(code) IN IF fc.ok THEN RetWord(value) ELSE RetErr(fc)

\* UnwindCursor::set_register
SetRegisterEngine(c, r, v) ==
    [prim |-> "unw_set_reg", outs |-> EngineSetReg(c, r, v)]

SetRegisterRet(code) ==
    LET fc == FromCode(code) IN IF fc.ok THEN RetUnit ELSE RetErr(fc)

\* UnwindCursor::fp_register: the call it makes is unw_get_reg
FpRegisterEngine(c, r) == [prim |-> "unw_get_reg", outs |-> EngineGetReg(c, r)]

FpRegisterRet(code, value) ==
    LET fc == FromCode(code) IN IF fc.ok THEN RetWord(value) ELSE RetErr(fc)

\* UnwindCursor::set_fp_register
SetFpRegisterEngine(c, r, v) ==
    [prim |-> "unw_set_fpreg", outs |-> EngineSetFpreg(c, r, v)]

SetFpRegisterRet(code) ==
    LET fc == FromCode(code) IN IF fc.ok THEN RetUnit ELSE RetErr(fc)

MutIsFpRegisterNonzero(code) == RetPlainBool(code # 0)

\* UnwindCursor::is_fp_register
IsFpRegisterRet(code) == RetPlainBool(code > 0)

\* UnwindCursor::is_signal_frame
IsSignalFrameRet(code) ==
    LET fc == FromCode(code) IN IF fc.ok THEN RetBool(code > 0) ELSE RetErr(fc)

\* the sentinel register_name compares with
UnknownRegister == "unknown register"

MutRegisterNameEmpty(str) == IF str = "" THEN RetNone ELSE RetSome(str)

\* UnwindCursor::register_name
RegisterNameRet(str) == IF str = UnknownRegister THEN RetNone ELSE RetSome(str)

\* Debug for UnwindCursor: "UnwindCursor { ip: .. }" when the instruction
\* pointer can be read, "UnwindCursor { .. }" otherwise
DebugRet(r) ==
    IF r.tag = "Ok" THEN Ret("Fmt", "", 0, r.word, TRUE, "UnwindCursor")
    ELSE Ret("Fmt", "", 0, 0, FALSE, "UnwindCursor")

(***************************************************************************)
(* Handles and cells.                                                      *)
(***************************************************************************)
LiveCtx(k) == ctxs[k].live
LiveCur(h) == cellOf[h] # 0
Cur(h) == cells[cellOf[h]]

FreeCtxs == {k \in CtxIds : ~ctxs[k].live}
FreeHandles == {h \in CurIds : cellOf[h] = 0}
FreeCells == {i \in CellIds : \A h \in CurIds : cellOf[h] # i}
Lowest(S) == CHOOSE i \in S : \A j \in S : i <= j

\* a clone that shares the cell of the original
MutCloneShares(src, fresh) == src

\* #[derive(Clone)] on RefCell<unw_cursor_t>: the clone gets a cell of its own
CloneTarget(src, fresh) == fresh

(***************************************************************************)
(* One engine call on a cell borrowed exclusively for that call.           *)
(***************************************************************************)
Exclusive(c, e) ==
    LET b == BorrowMut(c.borrow)
    IN  IF b.panic
        THEN {[panic |-> TRUE, cell |-> c, code |-> 0, value |-> 0, name |-> "",
               trace |-> <<"borrow_mut">>]}
        ELSE {[panic |-> FALSE,
               cell |-> [Final(cs).cell EXCEPT !.borrow = DropRefMut(b.flag)],
               code |-> Final(cs).code, value |-> Final(cs).value,
               name |-> Final(cs).name, trace |-> Trace(e.prim, cs)] :
                  cs \in Calls(e.outs)}

\* the call on cursor h ends: it panicked, or it returns ret and leaves cell
Apply(h, op, args, x, ret, cell) ==
    IF x.panic
    THEN /\ panicked' = TRUE
         /\ last' = Called(op, args, 0, RetPanic, x.trace)
         /\ UNCHANGED <<stack, ctxs, cells, cellOf, observed>>
    ELSE /\ cells' = [cells EXCEPT ![cellOf[h]] = cell]
         /\ last' = Called(op, args, x.code, ret, x.trace)
         /\ UNCHANGED <<stack, ctxs, cellOf, panicked, observed>>

(***************************************************************************)
(* The public operations.                                                  *)
(***************************************************************************)
\* UnwindError::from_code(code)
FromCodeCall(code) ==
    /\ ~panicked
    /\ last' = Called("from_code", <<>>, code,
                      LET fc == FromCode(code)
                      IN  IF fc.ok THEN RetCode(fc.code) ELSE RetErr(fc), <<>>)
    /\ UNCHANGED <<stack, ctxs, cells, cellOf, panicked, observed>>

\* UnwindContext::new()
ContextNew(k) ==
    /\ ~panicked
    /\ FreeCtxs # {} /\ k = Lowest(FreeCtxs)
    /\ \E cs \in Calls(EngineGetContext) :
          LET o == Final(cs)
              ret == ContextNewRet(o.code)
          IN  /\ ctxs' = IF ret.tag = "Ok"
                         THEN [ctxs EXCEPT ![k] =
                                 [live |-> TRUE, ip |-> o.value, borrow |-> 0]]
                         ELSE ctxs
              /\ last' = Called("context_new", <<>>, o.code, ret,
                                [i \in 1..Len(cs) |-> "unw_getcontext"])
    /\ UNCHANGED <<stack, cells, cellOf, panicked, observed>>

\* UnwindContext::clone(): RefCell::clone borrows, copies, releases
ContextClone(k, k2) ==
    /\ ~panicked
    /\ LiveCtx(k)
    /\ FreeCtxs # {} /\ k2 = Lowest(FreeCtxs)
    /\ LET b == BorrowShared(ctxs[k].borrow)
       IN  IF b.panic
           THEN /\ panicked' = TRUE
                /\ last' = Called("context_clone", <<>>, 0, RetPanic, <<"borrow">>)
                /\ UNCHANGED ctxs
           ELSE /\ ctxs' = [ctxs EXCEPT
                              ![k] = [ctxs[k] EXCEPT !.borrow = DropRef(b.flag)],
                              ![k2] = [ctxs[k] EXCEPT !.borrow = 0]]
                /\ last' = Called("context_clone", <<>>, 0, RetNothing,
                                  <<"borrow", "release">>)
                /\ UNCHANGED panicked
    /\ UNCHANGED <<stack, cells, cellOf, observed>>

\* UnwindContext::as_mut_ptr(&mut self): get_mut, no run-time borrow
ContextAsMutPtr(k) ==
    /\ ~panicked
    /\ LiveCtx(k)
    /\ last' = Called("as_mut_ptr", <<>>, 0, RetNothing, <<>>)
    /\ UNCHANGED <<stack, ctxs, cells, cellOf, panicked, observed>>

\* the owner releases the context
ContextDrop(k) ==
    /\ ~panicked
    /\ LiveCtx(k)
    /\ ctxs' = [ctxs EXCEPT ![k] = NoCtx]
    /\ last' = Called("context_drop", <<>>, 0, RetNothing, <<>>)
    /\ UNCHANGED <<stack, cells, cellOf, panicked, observed>>

\* UnwindCursor::new(&context)
CursorNew(k, h) ==
    /\ ~panicked
    /\ LiveCtx(k)
    /\ FreeHandles # {} /\ h = Lowest(FreeHandles) /\ FreeCells # {}
    /\ LET b == BorrowMut(ctxs[k].borrow)
       IN  IF b.panic
           THEN /\ panicked' = TRUE
                /\ last' = Called("cursor_new", <<>>, 0, RetPanic, <<"borrow_mut">>)
                /\ UNCHANGED <<ctxs, cells, cellOf>>
           ELSE \E cs \in Calls(EngineInitLocal(ctxs[k])) :
                   LET o == Final(cs)
                       ret == CursorNewRet(o.code)
                   IN  /\ ctxs' = [ctxs EXCEPT ![k].borrow = DropRefMut(b.flag)]
                       /\ IF ret.tag = "Ok"
                          THEN /\ cells' = [cells EXCEPT ![Lowest(FreeCells)] = o.cell]
                               /\ cellOf' = [cellOf EXCEPT ![h] = Lowest(FreeCells)]
                          ELSE UNCHANGED <<cells, cellOf>>
                       /\ last' = Called("cursor_new", <<>>, o.code, ret,
                                         Trace("unw_init_local", cs))
                       /\ UNCHANGED panicked
    /\ UNCHANGED <<stack, observed>>

\* UnwindCursor::clone()
CursorClone(h, h2) ==
    /\ ~panicked
    /\ LiveCur(h)
    /\ FreeHandles # {} /\ h2 = Lowest(FreeHandles) /\ FreeCells # {}
    /\ LET c == Cur(h)
           b == BorrowShared(c.borrow)
           tgt == CloneTarget(cellOf[h], Lowest(FreeCells))
       IN  IF b.panic
           THEN /\ panicked' = TRUE
                /\ last' = Called("cursor_clone", <<>>, 0, RetPanic, <<"borrow">>)
                /\ UNCHANGED <<cells, cellOf>>
           ELSE /\ cells' = [cells EXCEPT
                               ![cellOf[h]] = [c EXCEPT !.borrow = DropRef(b.flag)],
                               ![tgt] = [c EXCEPT !.borrow = 0]]
                /\ cellOf' = [cellOf EXCEPT ![h2] = tgt]
                /\ last' = Called("cursor_clone", <<>>, 0, RetNothing,
                                  <<"borrow", "release">>)
                /\ UNCHANGED panicked
    /\ UNCHANGED <<stack, ctxs, observed>>

\* the owner releases the cursor
CursorDrop(h) ==
    /\ ~panicked
    /\ LiveCur(h)
    /\ cellOf' = [cellOf EXCEPT ![h] = 0]
    /\ cells' = IF \E g \in CurIds \ {h} : cellOf[g] = cellOf[h]
                THEN cells
                ELSE [cells EXCEPT ![cellOf[h]] = NoCell]
    /\ last' = Called("cursor_drop", <<>>, 0, RetNothing, <<>>)
    /\ UNCHANGED <<stack, ctxs, panicked, observed>>

\* UnwindCursor::step(); where the calls are observed, what step has
\* returned so far on this traversal is kept beside the cursor
Step(h) ==
    /\ ~panicked
    /\ LiveCur(h)
    /\ LET c == Cur(h)
       IN  \E x \in Exclusive(c, StepEngine(c)) :
              LET ret == StepRet(x.code)
              IN  Apply(h, "step", <<>>, x, ret,
                        IF ~observed THEN x.cell
                        ELSE [x.cell EXCEPT
                           !.trues = IF ~c.terminal /\ ret = RetBool(TRUE)
                                     THEN c.trues + 1 ELSE c.trues,
                           !.erred = c.erred \/ (~c.terminal /\ ret.tag = "Err"),
                           !.terminal = c.terminal \/ ret = RetBool(FALSE),
                           !.pastEnd = c.pastEnd
                                      \/ (c.terminal /\ EngineCalls(x.trace) # <<>>)])

\* UnwindCursor::register(register)
Register(h, r) ==
    /\ ~panicked
    /\ LiveCur(h)
    /\ \E x \in Exclusive(Cur(h), RegisterEngine(Cur(h), r)) :
          Apply(h, "register", <<r>>, x, RegisterRet(x.code, x.value), x.cell)

\* UnwindCursor::set_register(register, value)
SetRegister(h, r, v) ==
    /\ ~panicked
    /\ LiveCur(h)
    /\ \E x \in Exclusive(Cur(h), SetRegisterEngine(Cur(h), r, v)) :
          Apply(h, "set_register", <<r, v>>, x, SetRegisterRet(x.code), x.cell)

\* UnwindCursor::fp_register(register)
FpRegister(h, r) ==
    /\ ~panicked
    /\ LiveCur(h)
    /\ \E x \in Exclusive(Cur(h), FpRegisterEngine(Cur(h), r)) :
          Apply(h, "fp_register", <<r>>, x, FpRegisterRet(x.code, x.value), x.cell)

\* UnwindCursor::set_fp_register(register, value)
SetFpRegister(h, r, v) ==
    /\ ~panicked
    /\ LiveCur(h)
    /\ \E x \in Exclusive(Cur(h), SetFpRegisterEngine(Cur(h), r, v)) :
          Apply(h, "set_fp_register", <<r, v>>, x, SetFpRegisterRet(x.code), x.cell)

\* UnwindCursor::is_fp_register(register)
IsFpRegister(h, r) ==
    /\ ~panicked
    /\ LiveCur(h)
    /\ \E x \in Exclusive(Cur(h), [prim |-> "unw_is_fpreg",
                                   outs |-> EngineIsFpreg(Cur(h), r)]) :
          Apply(h, "is_fp_register", <<r>>, x, IsFpRegisterRet(x.code), x.cell)

\* UnwindCursor::is_signal_frame()
IsSignalFrame(h) ==
    /\ ~panicked
    /\ LiveCur(h)
    /\ \E x \in Exclusive(Cur(h), [prim |-> "unw_is_signal_frame",
                                   outs |-> EngineIsSignalFrame(Cur(h))]) :
          Apply(h, "is_signal_frame", <<>>, x, IsSignalFrameRet(x.code), x.cell)

\* UnwindCursor::register_name(register)
RegisterName(h, r) ==
    /\ ~panicked
    /\ LiveCur(h)
    /\ \E x \in Exclusive(Cur(h), [prim |-> "unw_regname",
                                   outs |-> EngineRegname(Cur(h), r)]) :
          Apply(h, "register_name", <<r>>, x, RegisterNameRet(x.name), x.cell)

\* <UnwindCursor as Debug>::fmt: self.register(UNW_REG_IP), then the struct
DebugFmt(h) ==
    /\ ~panicked
    /\ LiveCur(h)
    /\ \E x \in Exclusive(Cur(h), RegisterEngine(Cur(h), UNW_REG_IP)) :
          Apply(h, "debug", <<>>, x, DebugRet(RegisterRet(x.code, x.value)), x.cell)

(***************************************************************************)
(* Specifications.                                                         *)
(***************************************************************************)
Codes ==
    ((UNW_ENOINFO - CodeMargin)..(UNW_EUNSPEC + CodeMargin))
    \cup ((0 - CodeMargin)..CodeMargin)
    \cup {INT_MIN, INT_MAX}

Start ==
    /\ stack \in Stacks
    /\ ctxs = [k \in CtxIds |-> NoCtx]
    /\ cells = [i \in CellIds |-> NoCell]
    /\ cellOf = [h \in CurIds |-> 0]
    /\ panicked = FALSE
    /\ last = Call("none", <<>>, 0, RetNothing, <<>>)

\* Spec: a program holding several contexts and cursors, cloning and
\* releasing them, on a two-frame stack of complete unwind info, writing
\* one value; the cells are what is looked at.  UnwindCursor::new fills
\* handle 1 only, so a cursor under another handle is a clone.
OwnStack == [depth |-> 2, wellFormed |-> TRUE, sig |-> 0]
OwnValues == {1}

Init == Start /\ observed = FALSE /\ stack = OwnStack

Next ==
    \/ \E k \in CtxIds : ContextNew(k)
    \/ \E k, k2 \in CtxIds : ContextClone(k, k2)
    \/ \E k \in CtxIds : ContextAsMutPtr(k)
    \/ \E k \in CtxIds : ContextDrop(k)
    \/ \E k \in CtxIds : CursorNew(k, 1)
    \/ \E h, h2 \in CurIds : CursorClone(h, h2)
    \/ \E h \in CurIds : CursorDrop(h)
    \/ \E h \in CurIds : Step(h)
    \/ \E h \in CurIds, r \in RegIds : Register(h, r)
    \/ \E h \in CurIds, r \in RegIds, v \in OwnValues : SetRegister(h, r, v)
    \/ \E h \in CurIds, r \in RegIds : FpRegister(h, r)
    \/ \E h \in CurIds, r \in RegIds, v \in OwnValues : SetFpRegister(h, r, v)
    \/ \E h \in CurIds, r \in RegIds : IsFpRegister(h, r)
    \/ \E h \in CurIds : IsSignalFrame(h)
    \/ \E h \in CurIds, r \in RegIds : RegisterName(h, r)
    \/ \E h \in CurIds : DebugFmt(h)

Spec == Init /\ [][Next]_vars

\* SpecWalk: a program with one context and one cursor walking any stack,
\* every call observed
InitWalk == Start /\ observed = TRUE

NextWalk ==
    \/ ContextNew(1)
    \/ ContextAsMutPtr(1)
    \/ ContextDrop(1)
    \/ CursorNew(1, 1)
    \/ CursorDrop(1)
    \/ Step(1)
    \/ \E r \in RegIds : Register(1, r)
    \/ \E r \in RegIds, v \in Values : SetRegister(1, r, v)
    \/ \E r \in RegIds : FpRegister(1, r)
    \/ \E r \in RegIds, v \in Values : SetFpRegister(1, r, v)
    \/ \E r \in RegIds : IsFpRegister(1, r)
    \/ IsSignalFrame(1)
    \/ \E r \in RegIds : RegisterName(1, r)
    \/ DebugFmt(1)

SpecWalk == InitWalk /\ [][NextWalk]_vars

\* SpecClassify: from_code applied to every code of Codes
InitClassify ==
    /\ Start
    /\ observed = TRUE
    /\ stack = [depth |-> 1, wellFormed |-> TRUE, sig |-> 0]

NextClassify == \E code \in Codes : FromCodeCall(code)

SpecClassify == InitClassify /\ [][NextClassify]_vars

(***************************************************************************)
(* The claims.                                                             *)
(***************************************************************************)
\* the ten named status codes and the kind each is documented to mean
NamedKinds ==
    {<<UNW_EUNSPEC, "Unspecified">>, <<UNW_ENOMEM, "NoMemory">>,
     <<UNW_EBADREG, "BadRegister">>,
     <<UNW_EREADONLYREG, "WriteToReadOnlyRegister">>,
     <<UNW_ESTOPUNWIND, "StopUnwinding">>, <<UNW_EINVALIDIP, "InvalidIP">>,
     <<UNW_EBADFRAME, "BadFrame">>, <<UNW_EINVAL, "BadValue">>,
     <<UNW_EBADVERSION, "BadVersion">>, <<UNW_ENOINFO, "NoInfo">>}

\* the error a failing status is to be reported as
ErrFor(code) ==
    IF \E p \in NamedKinds : p[1] = code
    THEN Ret("Err", (CHOOSE p \in NamedKinds : p[1] = code)[2], 0, 0, FALSE, "")
    ELSE Ret("Err", "Unknown", code, 0, FALSE, "")

\* C1: from_code returns Ok(code), the code unchanged, for every code at or
\* above the success constant; below it, each of the ten named constants
\* gives exactly its named kind and every other code gives Unknown{code}
\* with that code.
C1_FromCodeClassifies ==
    last.op = "from_code" =>
        /\ last.code >= UNW_ESUCCESS => last.ret = RetCode(last.code)
        /\ last.code < UNW_ESUCCESS => last.ret = ErrFor(last.code)
        /\ \A p \in NamedKinds :
              last.code = p[1] => last.ret.tag = "Err" /\ last.ret.kind = p[2]

C1_Witness ==
    /\ last.op = "from_code"
    /\ last.code = UNW_ENOINFO - 1
    /\ last.ret = Ret("Err", "Unknown", UNW_ENOINFO - 1, 0, FALSE, "")

\* C2: on a stack of complete unwind info, depth n and no signal frame,
\* the step calls on a cursor return Ok(true) exactly n-1 times and then
\* Ok(false), none of them an error; the engine's end-of-stack status is
\* returned as Ok(false), never as an error.
C2_StepCounts ==
    LET c == cells[1]
    IN  /\ (c.live /\ stack.wellFormed /\ stack.sig = 0) =>
              /\ ~c.erred
              /\ ~c.terminal => c.trues = c.frame - 1 /\ c.trues <= stack.depth - 1
              /\ c.terminal => c.trues = stack.depth - 1
        /\ (last.op = "step" /\ last.code = UNW_STEP_END) =>
              last.ret = RetBool(FALSE)

C2_Witness ==
    /\ stack = [depth |-> MaxDepth, wellFormed |-> TRUE, sig |-> 0]
    /\ cells[1].live /\ cells[1].terminal /\ ~cells[1].pastEnd
    /\ cells[1].trues = MaxDepth - 1
    /\ last.op = "step" /\ last.ret = RetBool(FALSE)

\* C3, as claimed: once step has returned false on a cursor, no later step
\* call on that cursor reaches the engine's step primitive.
C3_NoStepPastEnd == \A i \in CellIds : ~cells[i].pastEnd

\* C3, amended: a step call on a cursor on which step has already returned
\* false is not stopped: it is passed to the engine's step primitive, once,
\* like any other, and returns what that status classifies to.
C3_StepPastEndForwarded ==
    (last.op = "step" /\ cells[1].live /\ cells[1].pastEnd) =>
        /\ EngineCalls(last.trace) = <<"unw_step">>
        /\ last.ret = IF last.code >= UNW_ESUCCESS
                      THEN RetBool(last.code = UNW_STEP_SUCCESS)
                      ELSE ErrFor(last.code)

C3_Witness ==
    /\ last.op = "step" /\ cells[1].live /\ cells[1].pastEnd
    /\ last.code = UNW_STEP_SUCCESS /\ last.ret = RetBool(TRUE)

\* C4, as claimed: fp_register(id) gets its value from the engine's
\* floating-point read primitive, the register file set_fp_register writes.
C4_FpRegisterReadsFpFile ==
    last.op = "fp_register" =>
        /\ EngineCalls(last.trace) = <<"unw_get_fpreg">>
        /\ last.code \in {o.code : o \in EngineGetFpreg(cells[1], last.args[1])}
        /\ last.code >= UNW_ESUCCESS => last.ret = RetWord(cells[1].d0)

\* C5: register(id) with an identifier the architecture does not have
\* returns Err(BadRegister), does not panic and leaves the cursor as it was.
C5_BadRegister ==
    [][\A r \in RegIds \ (GpRegs \cup FpRegs) :
          (last'.op = "register" /\ Register(1, r)) =>
              /\ last'.ret = Ret("Err", "BadRegister", 0, 0, FALSE, "")
              /\ ~panicked'
              /\ cells' = cells /\ cellOf' = cellOf /\ ctxs' = ctxs]_vars

C5_Witness ==
    /\ last.op = "register" /\ last.args = <<UNW_BAD_REG>>
    /\ last.ret = Ret("Err", "BadRegister", 0, 0, FALSE, "")
    /\ cells[1].live /\ cells[1].frame = 2 /\ ~panicked

\* C6: register_name(id) returns None exactly when the engine's name is
\* "unknown register", otherwise Some of the engine's string, which is not
\* empty for a register the architecture has.
C6_RegisterName ==
    last.op = "register_name" =>
        \A o \in EngineRegname(cells[1], last.args[1]) :
            /\ last.ret = RetNone <=> o.name = "unknown register"
            /\ last.ret # RetNone => last.ret = RetSome(o.name)
            /\ last.args[1] \in GpRegs \cup FpRegs =>
                  last.ret.tag = "Some" /\ last.ret.name # ""

C6_Witness ==
    /\ last.op = "register_name" /\ last.args = <<UNW_BAD_REG>>
    /\ last.ret = RetNone

\* C7: is_fp_register(id) never fails and never changes the cursor: it
\* returns true exactly when the engine's answer is positive, false when
\* it is zero or negative.
C7_IsFpRegister ==
    [][\A r \in RegIds :
          (last'.op = "is_fp_register" /\ IsFpRegister(1, r)) =>
              /\ last'.ret.tag = "Bool"
              /\ last'.ret.flag <=> last'.code > 0
              /\ ~panicked'
              /\ cells' = cells /\ cellOf' = cellOf /\ ctxs' = ctxs]_vars

C7_Witness ==
    /\ last.op = "is_fp_register" /\ last.code < 0
    /\ last.ret = RetPlainBool(FALSE) /\ ~panicked

\* what the holder of cursor handle g has
View(g) == IF cellOf[g] = 0 THEN NoCell ELSE cells[cellOf[g]]

\* every cursor but h, and every context, is as it was
OthersKept(h) ==
    /\ \A g \in CurIds \ {h} : View(g)' = View(g)
    /\ ctxs' = ctxs

\* a call on cursor h that moves it or writes to it
Writes(h) ==
    \/ Step(h)
    \/ \E r \in RegIds, v \in OwnValues : SetRegister(h, r, v)
    \/ \E r \in RegIds, v \in OwnValues : SetFpRegister(h, r, v)

\* C8: a clone of a cursor or context equals the original at the moment of
\* the clone and is independent afterwards: step, set_register and
\* set_fp_register on one cursor leave every other cursor and every context
\* as they were, and a cursor does not change when a context is released.
C8_CloneIndependent ==
    [][/\ \A h \in CurIds : OthersKept(h) \/ ~Writes(h)
       /\ \A h, h2 \in CurIds :
            CursorClone(h, h2) =>
                /\ View(h2)' = View(h)
                /\ \A g \in CurIds \ {h2} : View(g)' = View(g)
                /\ ctxs' = ctxs
       /\ \A k, k2 \in CtxIds :
            ContextClone(k, k2) =>
                /\ ctxs'[k2] = ctxs[k]
                /\ \A j \in CtxIds \ {k2} : ctxs'[j] = ctxs[j]
                /\ cells' = cells /\ cellOf' = cellOf
       /\ \A k \in CtxIds :
            (cells' = cells /\ cellOf' = cellOf) \/ ~ContextDrop(k)]_vars

\* a clone and its original have gone separate ways, with every context
\* released
C8_Witness ==
    /\ cellOf[1] # 0 /\ cellOf[2] # 0 /\ cellOf[1] # cellOf[2]
    /\ View(1).frame = 1 /\ View(1).ip = StackIP(1) /\ View(1).d0 = StackD0
    /\ View(2).frame = 2 /\ View(2).atEnd /\ View(2).ip = 1 /\ View(2).d0 = 1
    /\ \A k \in CtxIds : ~ctxs[k].live

\* the engine primitive of each fallible operation
PrimitiveOf ==
    [context_new |-> "unw_getcontext", cursor_new |-> "unw_init_local",
     step |-> "unw_step", register |-> "unw_get_reg",
     set_register |-> "unw_set_reg", set_fp_register |-> "unw_set_fpreg",
     is_signal_frame |-> "unw_is_signal_frame"]

C10_BorrowsReleased ==
    /\ ~panicked
    /\ \A k \in CtxIds : ctxs[k].borrow = 0
    /\ \A i \in CellIds : cells[i].borrow = 0
    /\ \/ last.trace = <<>>
       \/ Len(last.trace) = 1 /\ last.op = "context_new"
       \/ /\ Len(last.trace) = 3
          /\ last.trace[1] = "borrow_mut" /\ last.trace[3] = "release"
          /\ EngineCalls(last.trace) = <<last.trace[2]>>

C10_Witness ==
    /\ last.op = "debug" /\ last.ret.flag /\ last.ret.word = StackIP(2)
    /\ last.trace = <<"borrow_mut", "unw_get_reg", "release">>
    /\ cells[1].borrow = 0 /\ ctxs[1].live /\ ctxs[1].borrow = 0

====
